---- MODULE Spec2Model ----
(***************************************************************************)
(* A model of two Ansible modules:                                         *)
(*   clustering/consul_kv.py        set / delete / lock / bulk import of   *)
(*                                  entries of a Consul key/value store    *)
(*   cloud/amazon/ec2_vpc_endpoint.py  create / delete / wait for an AWS   *)
(*                                  VPC endpoint                           *)
(* Every invocation of a module is a process that runs main() once.  The   *)
(* steps of a process are the calls it makes on the remote backend, the    *)
(* only points at which another invocation can interleave.                 *)
(***************************************************************************)
EXTENDS Integers, Sequences, FiniteSets, TLC

(***************************************************************************)
(* Python values.  Strings stand for Python strings, None for None; an     *)
(* absent cas is NoCas since cas is compared with integers.                *)
(***************************************************************************)
None == "None"
NoCas == -1

\* The JSON number 0 as json.loads yields it, the int 0: a value of its own,
\* equal to no string.
Zero == "int(0)"

\* Python truth value: None, '' and 0 are false.
Falsy(x) == x \in {None, "", Zero}

\* Python `a or b`.
PyOr(a, b) == IF Falsy(a) THEN b ELSE a

\* Python `a or b` on keys: the empty sequence stands for None and for ''.
KeyOr(a, b) == IF a = <<>> THEN b ELSE a

(***************************************************************************)
(* Keys are strings, modelled as sequences of characters so that prefixes  *)
(* and the '/' separator are what they are in the program.                 *)
(***************************************************************************)
Slash == <<"/">>
KeyA == <<"a">>
KeyAB == <<"a", "/", "b">>
KeyB == <<"b">>

IsPrefix(p, k) == Len(p) <= Len(k) /\ SubSeq(k, 1, Len(p)) = p

\* Bounds of the consul_kv model: invocations started in one behaviour, and the
\* nodes (dicts and leaves) of an imported document.
MaxRuns == 2
MaxNodes == 3
MaxImportNodes == 2

Procs == {1, 2}
KvKeys == {KeyA, KeyAB}
KvValues == {"v1", "v2"}
KvCas == {NoCas, 0, 1}

VARIABLES
    store,      \* the Consul KV store: present key -> [Value, ModifyIndex]
    raftIndex,  \* the store's last index; every successful write takes the next
    kvpc,       \* per invocation: the call it is about to make
    kvparams,   \* per invocation: module.params
    kvloc,      \* per invocation: local variables of add_value / remove_value / import_values
    kvout,      \* per invocation: how it ended (exit_json / fail_json)
    kvcalls,    \* per invocation: the kv calls it issued
    kvhist,     \* per invocation: what the run before it was, and whether another writer wrote since
    runs        \* invocations started so far

kvvars == <<store, raftIndex, kvpc, kvparams, kvloc, kvout, kvcalls, kvhist, runs>>

VARIABLES
    doc,        \* the JSON document of a bulk import, as json.loads returns it
    order,      \* the order in which this interpreter's dicts iterate over keys
    flat,       \* what convert_dictionary returned for doc
    cvpc        \* "build" while the document is being written, "done" once converted

docvars == <<doc, order, flat, cvpc>>

VARIABLES
    endpoints,  \* the VPC endpoints of the account: id -> [vpc, service, token, State]
    tokens,     \* the client tokens AWS remembers: token -> [vpc, service, id]
    eppc,       \* the call the ec2_vpc_endpoint invocation is about to make
    epparams,   \* its module.params and check_mode
    eploc,      \* its local variables
    epout,      \* how it ended
    epcalls,    \* the client calls it issued
    ephist,     \* the backend as it was when the invocation started, and its replies
    epruns      \* invocations started so far

epvars == <<endpoints, tokens, eppc, epparams, eploc, epout, epcalls, ephist, epruns>>

vars == <<kvvars, docvars, epvars>>

(***************************************************************************)
(* The Consul agent as python-consul presents it.                          *)
(***************************************************************************)
NotFoundEntry == [found |-> FALSE, Value |-> None, ModifyIndex |-> 0, keys |-> {}]

\* consul.kv.get(key, recurse): the entry at key, or with recurse every entry whose
\* key starts with key; data is None when nothing matches.
KvGet(st, key, recurse) ==
    IF recurse
    THEN LET m == {k \in DOMAIN st : IsPrefix(key, k)}
         IN  IF m = {} THEN NotFoundEntry
             ELSE LET k0 == CHOOSE k \in m : \A j \in m : Len(k) <= Len(j)
                  IN  [found |-> TRUE, Value |-> st[k0].Value,
                       ModifyIndex |-> st[k0].ModifyIndex, keys |-> m]
    ELSE IF key \in DOMAIN st
         THEN [found |-> TRUE, Value |-> st[key].Value,
               ModifyIndex |-> st[key].ModifyIndex, keys |-> {key}]
         ELSE NotFoundEntry

\* Whether consul accepts kv.put(key, value, cas=cas): without cas always; cas=0 only
\* if the key does not exist; cas=N only if N is the key's ModifyIndex.
KvPutAccepted(st, key, cas) ==
    \/ cas = NoCas
    \/ cas = 0 /\ key \notin DOMAIN st
    \/ cas > 0 /\ key \in DOMAIN st /\ st[key].ModifyIndex = cas

\* The store after an accepted put; an empty value reads back as None.
KvPutStore(st, key, value, idx) ==
    [k \in DOMAIN st \cup {key} |->
        IF k = key
        THEN [Value |-> IF value \in {None, ""} THEN None ELSE value, ModifyIndex |-> idx]
        ELSE st[k]]

\* The store after consul.kv.delete(key, recurse).
KvDeleteStore(st, key, recurse) ==
    LET gone == IF recurse THEN {k \in DOMAIN st : IsPrefix(key, k)} ELSE {key}
    IN  [k \in DOMAIN st \ gone |-> st[k]]

(***************************************************************************)
(* consul_kv: one invocation of main().                                    *)
(***************************************************************************)
\* supports_check_mode=False: AnsibleModule never runs the module in check mode.
KvCheckMode == FALSE

\* The choices of `state` that main's argument_spec accepts.
StateChoices == {"present", "absent"}

NoParams ==
    [state |-> "present", key |-> <<>>, value |-> None, cas |-> NoCas,
     recurse |-> FALSE, retrieve |-> TRUE, session |-> None, json |-> None]

NoLocals ==
    [key |-> <<>>, value |-> None, existing |-> NotFoundEntry, changed |-> FALSE,
     put |-> "none", updated |-> <<>>, todo |-> {}, item |-> <<>>,
     importChanged |-> FALSE, results |-> 0]

NoCalls == [get |-> 0, put |-> 0, delete |-> 0]
NoOutcome == [kind |-> "none", changed |-> FALSE, msg |-> ""]
NoHistory ==
    [ran |-> FALSE, state |-> "present", key |-> <<>>, recurse |-> FALSE,
     kind |-> "none", changed |-> FALSE, foreign |-> FALSE, quiet |-> FALSE,
     same |-> FALSE, put |-> "none"]

\* module.exit_json(changed=...) and module.fail_json(msg=...): both leave main.
ExitJson(changed) == [kind |-> "exit", changed |-> changed, msg |-> ""]
FailJson(msg) == [kind |-> "fail", changed |-> FALSE, msg |-> msg]

\* AnsibleModule(argument_spec, mutually_exclusive): the message of the argument
\* error that ends the invocation before execute(), or None.
ArgumentError(prm) ==
    IF prm.session # None THEN "unsupported parameter: session"
    ELSE IF prm.state \notin StateChoices THEN "value of state must be one of: present, absent"
    ELSE IF prm.json # None /\ (prm.key # <<>> \/ prm.value # None)
         THEN "parameters are mutually exclusive"
    ELSE None

\* lock(): the exception that ends it.  Without a session it calls module.fail,
\* which AnsibleModule does not have; with one it reads the name consul_api,
\* which lock never binds.  kv.put is reached on neither path.
LockRaises(prm) ==
    IF Falsy(prm.session) THEN "AttributeError: fail" ELSE "NameError: consul_api"

\* add_value's result["changed"]: set to False on entry and never assigned again;
\* the outcome of the comparison and of the put stay in the local `changed`.
AddValueResultChanged(changed) == FALSE

\* A removal that takes every key for present.
RemoveChangedAlways(existing) == TRUE

\* remove_value: changed = existing != None.
RemoveChanged(existing) == existing.found

\* An add_value that writes without comparing.
AddChangedAlways(existing, value) == TRUE

\* add_value: changed = not existing or (existing and existing['Value'] != value).
AddChanged(existing, value) == ~existing.found \/ existing.Value # value

\* Another invocation wrote the store: the others are no longer alone.
MarkWrite(q, h) ==
    [p \in Procs |-> IF p = q THEN h[p]
                     ELSE [h[p] EXCEPT !.foreign = TRUE, !.quiet = FALSE]]

\* The invocation of p ends with outcome o.
KvFinish(p, o, calls, hist) ==
    /\ kvpc' = [kvpc EXCEPT ![p] = "done"]
    /\ kvout' = [kvout EXCEPT ![p] = o]
    /\ kvcalls' = [kvcalls EXCEPT ![p] = calls]
    /\ kvhist' = [hist EXCEPT ![p].foreign = FALSE]

(***************************************************************************)
(* Bulk import: the JSON document and its flattening.  A document is a     *)
(* dict: key -> node, a node being a leaf value or another dict.           *)
(***************************************************************************)
Leaf(v) == [leaf |-> TRUE, v |-> v, d |-> <<>>]
Dict(d) == [leaf |-> FALSE, v |-> None, d |-> d]

\* dict[key] = value
DictSet(dict, key, value) ==
    [k \in DOMAIN dict \cup {key} |-> IF k = key THEN value ELSE dict[k]]

\* dict.update(other)
DictUpdate(dict, other) ==
    [k \in DOMAIN dict \cup DOMAIN other |-> IF k \in DOMAIN other THEN other[k] ELSE dict[k]]

\* The keys of a dict in the order .items() yields them.
ItemsOrder(dict) == SelectSeq(order, LAMBDA k : k \in DOMAIN dict)

\* new_key = path + k
NewKey(path, k) == path \o k

\* A flattening that forgets the separator between the levels.
SubPathNoSlash(new_key) == new_key

\* The path handed to the recursive call: new_key + "/"
SubPath(new_key) == new_key \o Slash

RECURSIVE convert_dictionary(_, _)
RECURSIVE ConvertLoop(_, _, _, _)

\* The body of `for k, v in input_dict.items()`, over the items still to come.
ConvertLoop(input_dict, path, rest, new_dict) ==
    IF rest = <<>> THEN new_dict
    ELSE LET k == Head(rest)
             v == input_dict[k]
             new_key == NewKey(path, k)
         IN  ConvertLoop(input_dict, path, Tail(rest),
                IF ~v.leaf
                THEN DictUpdate(new_dict, convert_dictionary(v.d, SubPath(new_key)))
                ELSE DictSet(new_dict, new_key, v.v))

convert_dictionary(input_dict, path) ==
    ConvertLoop(input_dict, path, ItemsOrder(input_dict), <<>>)

\* A main() that lets the lock states through, with a lock() that puts whether or
\* not there is a session and returns to execute(), which goes on to remove_value.
KvMainLockReturns(p, prm) ==
    /\ kvpc[p] \in {"idle", "done"}
    /\ runs < MaxRuns
    /\ runs' = runs + 1
    /\ kvparams' = [kvparams EXCEPT ![p] = prm]
    /\ LET h == [kvhist EXCEPT ![p] =
                    [ran |-> kvpc[p] = "done", state |-> kvparams[p].state,
                     key |-> kvparams[p].key, recurse |-> kvparams[p].recurse,
                     kind |-> kvout[p].kind, changed |-> kvout[p].changed,
                     foreign |-> kvhist[p].foreign, quiet |-> ~kvhist[p].foreign,
                     same |-> kvpc[p] = "done" /\ kvparams[p] = prm,
                     put |-> kvloc[p].put]]
           err == IF prm.state \in {"acquire", "release"} THEN None
                  ELSE ArgumentError(prm)
       IN  IF err # None
           THEN /\ KvFinish(p, FailJson(err), NoCalls, h)
                /\ kvloc' = [kvloc EXCEPT ![p] = NoLocals]
           ELSE IF prm.state \in {"acquire", "release"}
           THEN /\ kvpc' = [kvpc EXCEPT ![p] = "rm_get"]
                /\ kvloc' = [kvloc EXCEPT ![p] = NoLocals]
                /\ kvout' = [kvout EXCEPT ![p] = NoOutcome]
                /\ kvcalls' = [kvcalls EXCEPT ![p] = [NoCalls EXCEPT !.put = 1]]
                /\ kvhist' = h
           ELSE IF prm.state = "present" /\ ~Falsy(prm.json)
           THEN \* import_values: json.loads, convert_dictionary, then the loop
                LET updated == convert_dictionary(doc, <<>>)
                IN  IF DOMAIN updated = {}
                    THEN /\ KvFinish(p, ExitJson(FALSE), NoCalls, h)
                         /\ kvloc' = [kvloc EXCEPT ![p] = NoLocals]
                    ELSE /\ kvpc' = [kvpc EXCEPT ![p] = "add_get"]
                         /\ kvloc' = [kvloc EXCEPT ![p] =
                                [NoLocals EXCEPT !.updated = updated,
                                                 !.todo = DOMAIN updated]]
                         /\ kvout' = [kvout EXCEPT ![p] = NoOutcome]
                         /\ kvcalls' = [kvcalls EXCEPT ![p] = NoCalls]
                         /\ kvhist' = h
           ELSE /\ kvpc' = [kvpc EXCEPT ![p] =
                                IF prm.state = "present" THEN "add_get" ELSE "rm_get"]
                /\ kvloc' = [kvloc EXCEPT ![p] =
                                [NoLocals EXCEPT !.key = prm.key, !.value = prm.value]]
                /\ kvout' = [kvout EXCEPT ![p] = NoOutcome]
                /\ kvcalls' = [kvcalls EXCEPT ![p] = NoCalls]
                /\ kvhist' = h
    /\ UNCHANGED <<store, raftIndex, docvars, epvars>>

\* main() up to the first call on the store: AnsibleModule checks the arguments,
\* then execute() dispatches on state.
KvMain(p, prm) ==
    /\ kvpc[p] \in {"idle", "done"}
    /\ runs < MaxRuns
    /\ runs' = runs + 1
    /\ kvparams' = [kvparams EXCEPT ![p] = prm]
    /\ LET h == [kvhist EXCEPT ![p] =
                    [ran |-> kvpc[p] = "done", state |-> kvparams[p].state,
                     key |-> kvparams[p].key, recurse |-> kvparams[p].recurse,
                     kind |-> kvout[p].kind, changed |-> kvout[p].changed,
                     foreign |-> kvhist[p].foreign, quiet |-> ~kvhist[p].foreign,
                     same |-> kvpc[p] = "done" /\ kvparams[p] = prm,
                     put |-> kvloc[p].put]]
           err == ArgumentError(prm)
       IN  IF err # None
           THEN /\ KvFinish(p, FailJson(err), NoCalls, h)
                /\ kvloc' = [kvloc EXCEPT ![p] = NoLocals]
           ELSE IF prm.state \in {"acquire", "release"}
           THEN \* lock() raises; main's `except Exception` turns it into fail_json
                /\ KvFinish(p, FailJson(LockRaises(prm)), NoCalls, h)
                /\ kvloc' = [kvloc EXCEPT ![p] = NoLocals]
           ELSE IF prm.state = "present" /\ ~Falsy(prm.json)
           THEN \* import_values: json.loads, convert_dictionary, then the loop
                LET updated == convert_dictionary(doc, <<>>)
                IN  IF DOMAIN updated = {}
                    THEN /\ KvFinish(p, ExitJson(FALSE), NoCalls, h)
                         /\ kvloc' = [kvloc EXCEPT ![p] = NoLocals]
                    ELSE /\ kvpc' = [kvpc EXCEPT ![p] = "add_get"]
                         /\ kvloc' = [kvloc EXCEPT ![p] =
                                [NoLocals EXCEPT !.updated = updated,
                                                 !.todo = DOMAIN updated]]
                         /\ kvout' = [kvout EXCEPT ![p] = NoOutcome]
                         /\ kvcalls' = [kvcalls EXCEPT ![p] = NoCalls]
                         /\ kvhist' = h
           ELSE /\ kvpc' = [kvpc EXCEPT ![p] =
                                IF prm.state = "present" THEN "add_get" ELSE "rm_get"]
                /\ kvloc' = [kvloc EXCEPT ![p] =
                                [NoLocals EXCEPT !.key = prm.key, !.value = prm.value]]
                /\ kvout' = [kvout EXCEPT ![p] = NoOutcome]
                /\ kvcalls' = [kvcalls EXCEPT ![p] = NoCalls]
                /\ kvhist' = h
    /\ UNCHANGED <<store, raftIndex, docvars, epvars>>

Importing(p) == ~Falsy(kvparams[p].json)

\* add_value up to and including index, existing = consul_api.kv.get(key).  In
\* import_values the loop hands it the next item of updated_dictionary.
AddGet(p) ==
    /\ kvpc[p] = "add_get"
    /\ \E item \in (IF Importing(p) THEN kvloc[p].todo ELSE {<<>>}) :
          LET override_key == item
              override_value == IF Importing(p) THEN kvloc[p].updated[item] ELSE None
              key == KeyOr(override_key, kvparams[p].key)
              value == PyOr(override_value, kvparams[p].value)
              existing == KvGet(store, key, FALSE)
              changed == AddChanged(existing, value)
          IN  /\ kvloc' = [kvloc EXCEPT ![p].key = key, ![p].value = value,
                                        ![p].existing = existing, ![p].changed = changed,
                                        ![p].put = "none", ![p].item = item]
              /\ kvpc' = [kvpc EXCEPT ![p] =
                            IF changed /\ ~KvCheckMode THEN "add_put" ELSE "add_retrieve"]
    /\ kvcalls' = [kvcalls EXCEPT ![p].get = @ + 1]
    /\ UNCHANGED <<store, raftIndex, kvparams, kvout, kvhist, runs, docvars, epvars>>

\* changed = bool(consul_api.kv.put(key, value, cas=..., flags=...))
AddPut(p) ==
    /\ kvpc[p] = "add_put"
    /\ LET ok == KvPutAccepted(store, kvloc[p].key, kvparams[p].cas)
       IN  /\ store' = IF ok THEN KvPutStore(store, kvloc[p].key, kvloc[p].value, raftIndex + 1)
                       ELSE store
           /\ raftIndex' = IF ok THEN raftIndex + 1 ELSE raftIndex
           /\ kvloc' = [kvloc EXCEPT ![p].changed = ok,
                                     ![p].put = IF ok THEN "ok" ELSE "rejected"]
           /\ kvhist' = IF ok THEN MarkWrite(p, kvhist) ELSE kvhist
    /\ kvcalls' = [kvcalls EXCEPT ![p].put = @ + 1]
    /\ kvpc' = [kvpc EXCEPT ![p] = "add_retrieve"]
    /\ UNCHANGED <<kvparams, kvout, runs, docvars, epvars>>

\* The rest of add_value (the second kv.get when retrieve is set, return result)
\* and what its caller does with the result: execute() exits with
\* result["changed"]; import_values folds it into changed and goes on.
AddRetrieve(p) ==
    /\ kvpc[p] = "add_retrieve"
    /\ LET calls == IF kvparams[p].retrieve
                    THEN [kvcalls[p] EXCEPT !.get = @ + 1] ELSE kvcalls[p]
           rc == AddValueResultChanged(kvloc[p].changed)
       IN  IF ~Importing(p)
           THEN /\ KvFinish(p, ExitJson(rc), calls, kvhist)
                /\ UNCHANGED kvloc
           ELSE LET left == kvloc[p].todo \ {kvloc[p].item}
                    ic == IF rc THEN rc ELSE kvloc[p].importChanged
                    loc == [kvloc[p] EXCEPT !.todo = left, !.importChanged = ic,
                                            !.results = @ + 1]
                IN  /\ kvloc' = [kvloc EXCEPT ![p] = loc]
                    /\ IF left = {}
                       THEN KvFinish(p, ExitJson(ic), calls, kvhist)
                       ELSE /\ kvpc' = [kvpc EXCEPT ![p] = "add_get"]
                            /\ kvcalls' = [kvcalls EXCEPT ![p] = calls]
                            /\ UNCHANGED <<kvout, kvhist>>
    /\ UNCHANGED <<store, raftIndex, kvparams, runs, docvars, epvars>>

\* remove_value up to index, existing = consul_api.kv.get(key, recurse=...); when
\* nothing is there it goes straight to exit_json.
RmGet(p) ==
    /\ kvpc[p] = "rm_get"
    /\ LET existing == KvGet(store, kvparams[p].key, kvparams[p].recurse)
           changed == RemoveChanged(existing)
           calls == [kvcalls[p] EXCEPT !.get = @ + 1]
       IN  /\ kvloc' = [kvloc EXCEPT ![p].existing = existing, ![p].changed = changed]
           /\ IF changed /\ ~KvCheckMode
              THEN /\ kvpc' = [kvpc EXCEPT ![p] = "rm_delete"]
                   /\ kvcalls' = [kvcalls EXCEPT ![p] = calls]
                   /\ UNCHANGED <<kvout, kvhist>>
              ELSE KvFinish(p, ExitJson(changed), calls, kvhist)
    /\ UNCHANGED <<store, raftIndex, kvparams, runs, docvars, epvars>>

\* consul_api.kv.delete(key, recurse), then module.exit_json(changed=changed, ...)
RmDelete(p) ==
    /\ kvpc[p] = "rm_delete"
    /\ store' = KvDeleteStore(store, kvparams[p].key, kvparams[p].recurse)
    /\ raftIndex' = raftIndex + 1
    /\ KvFinish(p, ExitJson(kvloc[p].changed), [kvcalls[p] EXCEPT !.delete = @ + 1],
                MarkWrite(p, kvhist))
    /\ UNCHANGED <<kvparams, kvloc, runs, docvars, epvars>>

(***************************************************************************)
(* ec2_vpc_endpoint: the values of one invocation.  Endpoint ids are the   *)
(* positions of the endpoints in the account, 0 standing for no id.        *)
(***************************************************************************)
\* Bounds of the ec2_vpc_endpoint model.
MaxEpRuns == 3

polling_increment_secs == 15

NoEndpoint ==
    [VpcEndpointId |-> 0, VpcId |-> None, ServiceName |-> None, State |-> None]

NoEpParams ==
    [state |-> "present", vpc_id |-> None, service |-> None, token |-> None,
     wait |-> FALSE, wait_timeout |-> 320, vpc_endpoint_id |-> 0, check_mode |-> FALSE]

NoEpLocals ==
    [changed |-> FALSE, resource_id |-> 0, max_retries |-> 0, x |-> 0,
     status_achieved |-> FALSE, bound |-> FALSE, resource |-> NoEndpoint,
     wait |-> "no"]

NoEpOutcome == [kind |-> "none", changed |-> FALSE, result |-> None, id |-> 0, msg |-> ""]
NoEpCalls == [create |-> 0, delete |-> 0, describe |-> 0, sleep |-> 0]
NoEpHistory ==
    [endpoints |-> <<>>, tokens |-> {}, reply |-> None, existed |-> FALSE,
     polled |-> <<>>, fetchFailed |-> FALSE]

(***************************************************************************)
(* The inputs of consul_kv invocations with a key.                         *)
(***************************************************************************)
PresentParams ==
    {[NoParams EXCEPT !.key = k, !.value = v, !.retrieve = r] :
        k \in KvKeys, v \in KvValues, r \in BOOLEAN}
    \cup {[NoParams EXCEPT !.key = KeyA, !.value = v, !.cas = c] :
        v \in KvValues, c \in KvCas \ {NoCas}}
    \cup {[NoParams EXCEPT !.key = KeyA, !.value = ""]}

AbsentParams ==
    {[NoParams EXCEPT !.state = "absent", !.key = k, !.recurse = r] :
        k \in KvKeys, r \in BOOLEAN}

LockParams ==
    {[NoParams EXCEPT !.state = st, !.key = KeyA, !.value = "v1", !.session = se] :
        st \in {"acquire", "release"}, se \in {None, "s1"}}

KvParams == PresentParams \cup AbsentParams \cup LockParams

\* The stores an invocation can find: any of the keys present, each with its own
\* ModifyIndex.
InitialIndex(k) == IF k = KeyA THEN 1 ELSE 2

InitialStores ==
    UNION {{[k \in S |-> [Value |-> f[k], ModifyIndex |-> InitialIndex(k)]] :
                f \in [S -> KvValues]} : S \in SUBSET KvKeys}

KvIdle ==
    /\ kvpc = [p \in Procs |-> "idle"]
    /\ kvparams = [p \in Procs |-> NoParams]
    /\ kvloc = [p \in Procs |-> NoLocals]
    /\ kvout = [p \in Procs |-> NoOutcome]
    /\ kvcalls = [p \in Procs |-> NoCalls]
    /\ kvhist = [p \in Procs |-> NoHistory]
    /\ runs = 0

DocIdle ==
    /\ doc = <<>>
    /\ order = <<KeyA, KeyB, KeyAB>>
    /\ flat = <<>>
    /\ cvpc = "build"

EpIdle ==
    /\ endpoints = <<>>
    /\ tokens = <<>>
    /\ eppc = "idle"
    /\ epparams = NoEpParams
    /\ eploc = NoEpLocals
    /\ epout = NoEpOutcome
    /\ epcalls = NoEpCalls
    /\ ephist = NoEpHistory
    /\ epruns = 0

Init ==
    /\ store \in InitialStores
    /\ raftIndex = 2
    /\ KvIdle
    /\ DocIdle
    /\ EpIdle

Next ==
    \E p \in Procs :
        \/ \E prm \in KvParams : KvMain(p, prm)
        \/ AddGet(p)
        \/ AddPut(p)
        \/ AddRetrieve(p)
        \/ RmGet(p)
        \/ RmDelete(p)

Spec == Init /\ [][Next]_vars

(***************************************************************************)
(* Documents for convert_dictionary and import_values, written one node    *)
(* at a time.  A key may hold a '/', as any JSON object key may.           *)
(***************************************************************************)
DocKeys == {KeyA, KeyB, KeyAB}
LeafValues == {"v1", "v2"}
DocNodes == {Leaf(v) : v \in LeafValues} \cup {Dict(<<>>)}
DocPaths == UNION {[1..n -> DocKeys] : n \in 1..MaxNodes}

\* The orders in which a dict can yield the keys.
Orders == {o \in [1..Cardinality(DocKeys) -> DocKeys] :
              \A i, j \in DOMAIN o : i # j => o[i] # o[j]}

RECURSIVE DocInsert(_, _, _)
\* The document with `node` at `path`, the dicts on the way created as needed.
DocInsert(d, path, node) ==
    LET k == Head(path)
    IN  IF Len(path) = 1 THEN DictSet(d, k, node)
        ELSE LET sub == IF k \in DOMAIN d /\ ~d[k].leaf THEN d[k].d ELSE <<>>
             IN  DictSet(d, k, Dict(DocInsert(sub, Tail(path), node)))

RECURSIVE NodeCount(_)
NodeCount(d) ==
    LET RECURSIVE Sum(_)
        Sum(ks) == IF ks = {} THEN 0
                   ELSE LET k == CHOOSE x \in ks : TRUE
                        IN  1 + (IF d[k].leaf THEN 0 ELSE NodeCount(d[k].d))
                              + Sum(ks \ {k})
    IN  Sum(DOMAIN d)

BuildDoc(path, node) ==
    /\ cvpc = "build"
    /\ runs = 0
    /\ NodeCount(DocInsert(doc, path, node)) <= MaxNodes
    /\ doc' = DocInsert(doc, path, node)
    /\ UNCHANGED <<order, flat, cvpc, kvvars, epvars>>

\* updated_dictionary = convert_dictionary(key_values)
Convert ==
    /\ cvpc = "build"
    /\ flat' = convert_dictionary(doc, <<>>)
    /\ cvpc' = "done"
    /\ UNCHANGED <<doc, order, kvvars, epvars>>

InitConvert ==
    /\ store = <<>>
    /\ raftIndex = 2
    /\ KvIdle
    /\ doc = <<>>
    /\ order \in Orders
    /\ flat = <<>>
    /\ cvpc = "build"
    /\ EpIdle

NextConvert ==
    \/ \E path \in DocPaths, node \in DocNodes : BuildDoc(path, node)
    \/ Convert

SpecConvert == InitConvert /\ [][NextConvert]_vars

(***************************************************************************)
(* Bulk import: one invocation with json set, on any store.                *)
(***************************************************************************)
\* The leaves of an imported document: strings, the empty string and the number 0.
ImportNodes == DocNodes \cup {Leaf(""), Leaf(Zero)}

ImportParams == {[NoParams EXCEPT !.json = "doc", !.retrieve = r] : r \in BOOLEAN}

InitImport ==
    /\ store \in InitialStores
    /\ raftIndex = 2
    /\ KvIdle
    /\ DocIdle
    /\ EpIdle

ImportMain(p) ==
    /\ runs = 0
    /\ \E prm \in ImportParams : KvMain(p, prm)

ImportDoc(path, node) ==
    /\ BuildDoc(path, node)
    /\ NodeCount(doc') <= MaxImportNodes

NextImport ==
    \/ \E path \in DocPaths, node \in ImportNodes : ImportDoc(path, node)
    \/ ImportMain(1)
    \/ AddGet(1)
    \/ AddPut(1)
    \/ AddRetrieve(1)

SpecImport == InitImport /\ [][NextImport]_vars

(***************************************************************************)
(* The EC2 API as the boto3 client presents it.                            *)
(***************************************************************************)
EndpointExists(id) == id \in DOMAIN endpoints /\ endpoints[id].State # "deleted"

Describe(id) ==
    [VpcEndpointId |-> id, VpcId |-> endpoints[id].VpcId,
     ServiceName |-> endpoints[id].ServiceName, State |-> endpoints[id].State]

\* The replies client.create_vpc_endpoint can give.  With DryRun it answers with an
\* error whatever the request: DryRunOperation if the caller may create, otherwise
\* UnauthorizedOperation.  A client token seen before gives the endpoint made with
\* it if the request is the same and IdempotentParameterMismatch if it is not;
\* once that endpoint is deleted the token is still remembered and either answer
\* is possible.  A fresh token makes a new endpoint, unless the request is refused.
CreateReplies(dry_run, prm) ==
    IF dry_run
    THEN {[err |-> "DryRunOperation", id |-> 0], [err |-> "UnauthorizedOperation", id |-> 0]}
    ELSE IF prm.token \in DOMAIN tokens
    THEN LET id == tokens[prm.token]
             same == /\ endpoints[id].VpcId = prm.vpc_id
                     /\ endpoints[id].ServiceName = prm.service
         IN  IF same /\ EndpointExists(id) THEN {[err |-> None, id |-> id]}
             ELSE IF same
             THEN {[err |-> None, id |-> id],
                   [err |-> "IdempotentParameterMismatch", id |-> 0]}
             ELSE {[err |-> "IdempotentParameterMismatch", id |-> 0]}
    ELSE {[err |-> None, id |-> Len(endpoints) + 1],
          [err |-> "InvalidVpcId.NotFound", id |-> 0]}

\* The replies client.describe_vpc_endpoints(VpcEndpointIds=[id]) can give.
DescribeReplies(id) ==
    {[err |-> "RequestLimitExceeded"]}
    \cup (IF EndpointExists(id) THEN {[err |-> None]}
          ELSE {[err |-> "InvalidVpcEndpointId.NotFound"]})

\* The replies client.delete_vpc_endpoints can give: with DryRun an error as for
\* create; otherwise the ids it could not delete come back under 'Unsuccessful',
\* or the call is refused.
DeleteReplies(dry_run, id) ==
    IF dry_run
    THEN {[err |-> "DryRunOperation", unsuccessful |-> <<>>],
          [err |-> "UnauthorizedOperation", unsuccessful |-> <<>>]}
    ELSE IF EndpointExists(id) THEN {[err |-> None, unsuccessful |-> <<>>]}
    ELSE {[err |-> None, unsuccessful |-> <<"InvalidVpcEndpointId.NotFound">>],
          [err |-> "InvalidVpcEndpointId.NotFound", unsuccessful |-> <<>>]}

\* What json.loads(json.dumps(client.describe_vpc_endpoints(...))) is: a JSON
\* object, so a dict with string keys, the endpoints under 'VpcEndpoints'.
DescribeResponse(ep) == [pytype |-> "dict", VpcEndpoints |-> <<ep>>]

\* Python obj[index] for an integer index: an item of a list; on a dict decoded
\* from JSON, whose keys are all strings, KeyError.
PyGetItem(obj, index) ==
    IF obj.pytype = "list"
    THEN IF index + 1 \in DOMAIN obj.items
         THEN [raised |-> None, value |-> obj.items[index + 1]]
         ELSE [raised |-> "IndexError", value |-> NoEndpoint]
    ELSE [raised |-> "KeyError", value |-> NoEndpoint]

(***************************************************************************)
(* ec2_vpc_endpoint: one invocation of main().                             *)
(***************************************************************************)
EpExit(changed, result, id) ==
    [kind |-> "exit", changed |-> changed, result |-> result, id |-> id, msg |-> ""]
EpFail(msg) ==
    [kind |-> "fail", changed |-> FALSE, result |-> None, id |-> 0, msg |-> msg]

WouldHaveCreated == "Would have created VPC Endpoint if not in check mode"
WouldHaveDeleted == "Would have deleted VPC Endpoint if not in check mode"
TokenNotUnique == "token is not unique, VPC Endpoint does not support update"
ErrorWaiting == "Error waiting for vpc endpoint to become available - please check the AWS console"

\* A setup_creation that forgets to require the token.
CreationErrorNoToken(prm) ==
    IF Falsy(prm.vpc_id) THEN "vpc_id is a required paramater"
    ELSE IF Falsy(prm.service) THEN "a valid service is a required paramater"
    ELSE None

\* setup_creation: the message of the first required parameter that is missing.
CreationError(prm) ==
    IF Falsy(prm.vpc_id) THEN "vpc_id is a required paramater"
    ELSE IF Falsy(prm.token) THEN "a unique token is a required paramater"
    ELSE IF Falsy(prm.service) THEN "a valid service is a required paramater"
    ELSE None

\* setup_removal: not module.params.get('vpc_endpoint_id')
RemovalError(prm) ==
    IF prm.vpc_endpoint_id = 0 THEN "vpc_endpoint_id is a required paramater" ELSE None

\* A request that never asks for a dry run.
DryRunOff(prm) == FALSE

\* params['DryRun'] = module.check_mode
DryRun(prm) == prm.check_mode

\* A bound that allows one turn more than the timeout has room for.
MaxRetriesOneMore(wait_timeout) == wait_timeout \div polling_increment_secs + 1

\* max_retries = wait_timeout / polling_increment_secs (integer division)
MaxRetries(wait_timeout) == wait_timeout \div polling_increment_secs

\* A handler that takes the token error for the dry-run answer.
CreateErrorOutcomeSwapped(err) ==
    IF err \in {"IdempotentParameterMismatch", "DryRunOperation"}
    THEN [kind |-> "exit", changed |-> TRUE,
          result |-> "Would have created VPC Endpoint if not in check mode",
          id |-> 0, msg |-> ""]
    ELSE [kind |-> "fail", changed |-> FALSE, result |-> None, id |-> 0, msg |-> err]

\* create_vpc_endpoint's handling of a ClientError with the code `err`.
CreateErrorOutcome(err) ==
    IF err = "IdempotentParameterMismatch" THEN EpFail(TokenNotUnique)
    ELSE IF err = "DryRunOperation" THEN EpExit(TRUE, WouldHaveCreated, 0)
    ELSE EpFail(err)

\* setup_removal's handling of a ClientError with the code `err`.
RemovalErrorOutcome(err) ==
    IF err = "DryRunOperation" THEN EpExit(TRUE, WouldHaveDeleted, 0)
    ELSE EpFail(err)

EpFinish(o) ==
    /\ eppc' = "done"
    /\ epout' = o

\* A create that never waits.
ShouldWaitNever(prm) == FALSE

\* create_vpc_endpoint: if module.params.get('wait') and not module.check_mode
ShouldWait(prm) == prm.wait /\ ~prm.check_mode

\* A handler that swallows the error of the fetch and goes on with the loop.
FetchFailedRetries(err) ==
    /\ eploc' = [eploc EXCEPT !.x = @ + 1]
    /\ UNCHANGED <<eppc, epout>>

\* wait_for_status: except botocore.exceptions.ClientError as e:
\* module.fail_json(msg=str(e))
FetchFailed(err) ==
    /\ EpFinish(EpFail(err))
    /\ eploc' = [eploc EXCEPT !.wait = "raised"]

\* main() up to the client call: setup_creation or setup_removal check the
\* parameters they require.
EpMain(prm) ==
    /\ eppc \in {"idle", "done"}
    /\ epruns < MaxEpRuns
    /\ epruns' = epruns + 1
    /\ epparams' = prm
    /\ eploc' = NoEpLocals
    /\ epcalls' = NoEpCalls
    /\ ephist' = [NoEpHistory EXCEPT !.endpoints = endpoints, !.tokens = DOMAIN tokens,
                                     !.existed = EndpointExists(prm.vpc_endpoint_id)]
    /\ LET err == IF prm.state = "present" THEN CreationError(prm) ELSE RemovalError(prm)
       IN  IF err # None THEN EpFinish(EpFail(err))
           ELSE /\ eppc' = IF prm.state = "present" THEN "create" ELSE "delete"
                /\ epout' = NoEpOutcome
    /\ UNCHANGED <<endpoints, tokens, kvvars, docvars>>

\* create_vpc_endpoint: the client call, then either the result, the entry into
\* wait_for_status, or the handling of the ClientError.
EpCreate ==
    /\ eppc = "create"
    /\ \E reply \in CreateReplies(DryRun(epparams), epparams) :
          /\ ephist' = [ephist EXCEPT !.reply = reply.err]
          /\ IF reply.err = None /\ reply.id > Len(endpoints)
             THEN /\ endpoints' = Append(endpoints,
                        [VpcId |-> epparams.vpc_id, ServiceName |-> epparams.service,
                         ClientToken |-> epparams.token, State |-> "pending"])
                  /\ tokens' = [t \in DOMAIN tokens \cup {epparams.token} |->
                                    IF t = epparams.token THEN reply.id ELSE tokens[t]]
             ELSE UNCHANGED <<endpoints, tokens>>
          /\ IF reply.err # None
             THEN /\ EpFinish(CreateErrorOutcome(reply.err))
                  /\ UNCHANGED eploc
             ELSE IF ShouldWait(epparams)
             THEN /\ eppc' = "poll"
                  /\ eploc' = [eploc EXCEPT !.changed = TRUE, !.resource_id = reply.id,
                                  !.max_retries = MaxRetries(epparams.wait_timeout),
                                  !.wait = "polling"]
                  /\ UNCHANGED epout
             ELSE /\ EpFinish(EpExit(TRUE, "VpcEndpoint", reply.id))
                  /\ eploc' = [eploc EXCEPT !.changed = TRUE, !.resource_id = reply.id]
    /\ epcalls' = [epcalls EXCEPT !.create = @ + 1]
    /\ UNCHANGED <<epparams, epruns, kvvars, docvars>>

\* wait_for_status: one turn of `for x in range(0, max_retries)`.  A ClientError
\* of the fetch is turned into fail_json there; any other exception leaves
\* wait_for_status and is caught by create_vpc_endpoint's `except Exception`.
EpPoll ==
    /\ eppc = "poll"
    /\ ~eploc.status_achieved
    /\ eploc.x < eploc.max_retries
    /\ \E reply \in DescribeReplies(eploc.resource_id) :
          IF reply.err # None
          THEN /\ FetchFailed(reply.err)
               /\ ephist' = [ephist EXCEPT !.fetchFailed = TRUE]
               /\ epcalls' = [epcalls EXCEPT !.describe = @ + 1]
          ELSE LET seen == Describe(eploc.resource_id)
                   got == PyGetItem(DescribeResponse(seen), 0)
               IN  /\ ephist' = [ephist EXCEPT !.polled = Append(@, seen.State)]
                   /\ IF got.raised # None
                      THEN /\ EpFinish(EpFail(got.raised))
                           /\ eploc' = [eploc EXCEPT !.wait = "raised"]
                           /\ epcalls' = [epcalls EXCEPT !.describe = @ + 1]
                      ELSE IF got.value.State = "available"
                      THEN /\ eploc' = [eploc EXCEPT !.resource = got.value, !.bound = TRUE,
                                                     !.status_achieved = TRUE]
                           /\ epcalls' = [epcalls EXCEPT !.describe = @ + 1]
                           /\ UNCHANGED <<eppc, epout>>
                      ELSE /\ eploc' = [eploc EXCEPT !.resource = got.value, !.bound = TRUE,
                                                     !.x = @ + 1]
                           /\ epcalls' = [epcalls EXCEPT !.describe = @ + 1,
                                                         !.sleep = @ + 1]
                           /\ UNCHANGED <<eppc, epout>>
    /\ UNCHANGED <<endpoints, tokens, epparams, epruns, kvvars, docvars>>

\* The end of wait_for_status, `return status_achieved, resource`, and what
\* create_vpc_endpoint does with it.  If no turn of the loop bound `resource`
\* the return raises UnboundLocalError.
EpWaitReturn ==
    /\ eppc = "poll"
    /\ eploc.status_achieved \/ eploc.x >= eploc.max_retries
    /\ IF ~eploc.bound
       THEN /\ EpFinish(EpFail("UnboundLocalError"))
            /\ eploc' = [eploc EXCEPT !.wait = "raised"]
       ELSE /\ eploc' = [eploc EXCEPT !.wait = "returned"]
            /\ IF ~eploc.status_achieved THEN EpFinish(EpFail(ErrorWaiting))
               ELSE EpFinish(EpExit(eploc.changed, "VpcEndpoint", eploc.resource.VpcEndpointId))
    /\ UNCHANGED <<endpoints, tokens, epparams, epcalls, ephist, epruns, kvvars, docvars>>

\* A setup_removal that, with wait set, goes on to poll the endpoint it deleted.
EpDeleteWaits ==
    /\ eppc = "delete"
    /\ \E reply \in DeleteReplies(DryRun(epparams), epparams.vpc_endpoint_id) :
          /\ ephist' = [ephist EXCEPT !.reply = reply.err]
          /\ endpoints' = IF reply.err = None /\ reply.unsuccessful = <<>>
                          THEN [endpoints EXCEPT ![epparams.vpc_endpoint_id].State = "deleted"]
                          ELSE endpoints
          /\ IF reply.err # None
             THEN EpFinish(RemovalErrorOutcome(reply.err)) /\ UNCHANGED eploc
             ELSE IF ~epparams.check_mode /\ reply.unsuccessful # <<>>
             THEN EpFinish(EpFail(reply.unsuccessful[1])) /\ UNCHANGED eploc
             ELSE IF epparams.wait
             THEN /\ eppc' = "poll"
                  /\ eploc' = [eploc EXCEPT !.resource_id = epparams.vpc_endpoint_id,
                                  !.max_retries = MaxRetries(epparams.wait_timeout),
                                  !.wait = "polling"]
                  /\ UNCHANGED epout
             ELSE EpFinish(EpExit(FALSE, "Unsuccessful", 0)) /\ UNCHANGED eploc
    /\ epcalls' = [epcalls EXCEPT !.delete = @ + 1]
    /\ UNCHANGED <<tokens, epparams, epruns, kvvars, docvars>>

\* setup_removal: the client call and what follows it.
EpDelete ==
    /\ eppc = "delete"
    /\ \E reply \in DeleteReplies(DryRun(epparams), epparams.vpc_endpoint_id) :
          /\ ephist' = [ephist EXCEPT !.reply = reply.err]
          /\ endpoints' = IF reply.err = None /\ reply.unsuccessful = <<>>
                          THEN [endpoints EXCEPT ![epparams.vpc_endpoint_id].State = "deleted"]
                          ELSE endpoints
          /\ IF reply.err # None THEN EpFinish(RemovalErrorOutcome(reply.err))
             ELSE IF ~epparams.check_mode /\ reply.unsuccessful # <<>>
             THEN EpFinish(EpFail(reply.unsuccessful[1]))
             ELSE EpFinish(EpExit(FALSE, "Unsuccessful", 0))
    /\ epcalls' = [epcalls EXCEPT !.delete = @ + 1]
    /\ UNCHANGED <<tokens, epparams, eploc, epruns, kvvars, docvars>>

\* AWS brings a pending endpoint up, or fails it.
EnvProgress(id, state) ==
    /\ id \in DOMAIN endpoints
    /\ endpoints[id].State = "pending"
    /\ endpoints' = [endpoints EXCEPT ![id].State = state]
    /\ UNCHANGED <<tokens, eppc, epparams, eploc, epout, epcalls, ephist, epruns,
                   kvvars, docvars>>

(***************************************************************************)
(* The inputs of ec2_vpc_endpoint invocations.                             *)
(***************************************************************************)
EpVpcs == {"vpc-1", "vpc-2"}
EpTokens == {"t1", "t2"}
EpWaitTimeouts == {10, 30}
EpIds == {1, 2}

EpCreateParams ==
    {[NoEpParams EXCEPT !.vpc_id = v, !.service = "s3", !.token = t, !.check_mode = c] :
        v \in EpVpcs, t \in EpTokens, c \in BOOLEAN}
    \cup {[NoEpParams EXCEPT !.vpc_id = v, !.service = "s3", !.token = t, !.check_mode = c,
                            !.wait = TRUE, !.wait_timeout = w] :
        v \in EpVpcs, t \in EpTokens, c \in BOOLEAN, w \in EpWaitTimeouts}

EpIncompleteParams ==
    {[NoEpParams EXCEPT !.service = "s3", !.token = "t1"],
     [NoEpParams EXCEPT !.vpc_id = "vpc-1", !.service = "s3"],
     [NoEpParams EXCEPT !.vpc_id = "vpc-1", !.token = "t1"],
     [NoEpParams EXCEPT !.state = "absent"]}

EpRemoveParams ==
    {[NoEpParams EXCEPT !.state = "absent", !.vpc_endpoint_id = i, !.check_mode = c,
                        !.wait = w] :
        i \in EpIds, c \in BOOLEAN, w \in BOOLEAN}

EpParams == EpCreateParams \cup EpIncompleteParams \cup EpRemoveParams

InitEp ==
    /\ store = <<>>
    /\ raftIndex = 2
    /\ KvIdle
    /\ DocIdle
    /\ EpIdle

NextEp ==
    \/ \E prm \in EpParams : EpMain(prm)
    \/ EpCreate
    \/ EpPoll
    \/ EpWaitReturn
    \/ EpDelete
    \/ \E id \in EpIds, state \in {"available", "failed"} : EnvProgress(id, state)

SpecEp == InitEp /\ [][NextEp]_vars

(***************************************************************************)
(* Claims about consul_kv with a key, checked under Spec.                  *)
(***************************************************************************)
KvDone(p) == kvpc[p] = "done"

\* C1: a state=present invocation with a key and a value reports changed=true when
\* the key was absent or held another value and the write succeeded, and
\* changed=false when the stored value already equalled the supplied one.
C1_PresentChangedReflectsWrite ==
    \A p \in Procs :
        (KvDone(p) /\ kvparams[p].state = "present" /\ ~Importing(p)
            /\ kvout[p].kind = "exit")
        => /\ (AddChanged(kvloc[p].existing, kvloc[p].value) /\ kvloc[p].put = "ok")
                => kvout[p].changed
           /\ ~AddChanged(kvloc[p].existing, kvloc[p].value) => ~kvout[p].changed

\* C2: a state=absent invocation ends normally, with changed true exactly when its
\* read found the key; on an absent key it issues no kv.delete; and run again with
\* the same parameters and no other writer in between, it reports changed=false.
C2_AbsentChangedIffExisted ==
    \A p \in Procs :
        (KvDone(p) /\ kvparams[p].state = "absent")
        => /\ kvout[p].kind = "exit"
           /\ kvout[p].changed = kvloc[p].existing.found
           /\ kvloc[p].existing.found => kvcalls[p].delete = 1
           /\ ~kvloc[p].existing.found => (kvcalls[p].delete = 0 /\ ~kvout[p].changed)
           /\ (kvhist[p].ran /\ kvhist[p].quiet /\ kvhist[p].state = "absent"
                 /\ kvhist[p].kind = "exit" /\ kvhist[p].key = kvparams[p].key
                 /\ kvhist[p].recurse = kvparams[p].recurse)
                => ~kvout[p].changed

\* C2 witness: a second state=absent run on a key the first run removed.
C2_Witness ==
    \E p \in Procs :
        /\ KvDone(p) /\ kvparams[p].state = "absent"
        /\ kvhist[p].ran /\ kvhist[p].quiet /\ kvhist[p].state = "absent"
        /\ kvhist[p].key = kvparams[p].key /\ kvhist[p].recurse = kvparams[p].recurse
        /\ kvhist[p].changed
        /\ kvout[p].kind = "exit" /\ ~kvout[p].changed /\ kvcalls[p].delete = 0

\* C3: with a session supplied, state=acquire and state=release end with a normal
\* result (changed = the success of the conditional put), never with a failure.
C3_LockEndsNormally ==
    \A p \in Procs :
        (KvDone(p) /\ kvparams[p].state \in {"acquire", "release"}
            /\ ~Falsy(kvparams[p].session))
        => kvout[p].kind = "exit"

\* C4: of two state=present invocations carrying the same cas index for one key,
\* the one whose put is rejected after the other's put succeeded ends in failure,
\* and the winner's value is not overwritten.
C4_CasLoserFails ==
    \A p, q \in Procs :
        (/\ p # q
         /\ kvparams[p].state = "present" /\ kvparams[q].state = "present"
         /\ kvparams[p].key = kvparams[q].key
         /\ kvparams[p].cas = kvparams[q].cas /\ kvparams[p].cas # NoCas
         /\ kvloc[p].put = "ok" /\ kvloc[q].put = "rejected" /\ KvDone(q))
        => /\ kvout[q].kind = "fail"
           /\ kvparams[p].key \in DOMAIN store
           /\ store[kvparams[p].key].Value = kvloc[p].value

(***************************************************************************)
(* Claims about the flattening of a document, checked under SpecConvert.   *)
(***************************************************************************)
RECURSIVE LeafPaths(_, _)
\* The leaves of a document, each as <<the dict keys from the root to it, its value>>.
LeafPaths(d, prefix) ==
    UNION {IF d[k].leaf THEN {<<Append(prefix, k), d[k].v>>}
           ELSE LeafPaths(d[k].d, Append(prefix, k)) : k \in DOMAIN d}

RECURSIVE JoinSlash(_)
\* '/'.join(keys)
JoinSlash(keys) ==
    IF Len(keys) = 1 THEN keys[1] ELSE keys[1] \o Slash \o JoinSlash(Tail(keys))

DocLeaves == LeafPaths(doc, <<>>)

\* No two leaves of the document have the same '/'-joined path.
DistinctJoinedPaths ==
    \A l, m \in DocLeaves : JoinSlash(l[1]) = JoinSlash(m[1]) => l = m

\* One entry per leaf: as many entries as leaves, each leaf's joined path a key
\* that holds the leaf's value.
OneEntryPerLeaf ==
    /\ Cardinality(DOMAIN flat) = Cardinality(DocLeaves)
    /\ \A l \in DocLeaves :
          JoinSlash(l[1]) \in DOMAIN flat /\ flat[JoinSlash(l[1])] = l[2]

\* C9 as stated: convert_dictionary yields exactly one entry per leaf of the
\* document, keyed by the '/'-joined path of the leaf and holding its value.
C9_ExactlyOneEntryPerLeaf == cvpc = "done" => OneEntryPerLeaf

\* C9 as amended: the keys of the result are exactly the '/'-joined paths of the
\* leaves and each key holds the value of a leaf with that path; when no two
\* leaves share a joined path this is exactly one entry per leaf.
C9_OneEntryPerJoinedPath ==
    cvpc = "done" =>
        /\ DOMAIN flat = {JoinSlash(l[1]) : l \in DocLeaves}
        /\ \A k \in DOMAIN flat :
              \E l \in DocLeaves : JoinSlash(l[1]) = k /\ flat[k] = l[2]
        /\ DistinctJoinedPaths => OneEntryPerLeaf

\* C9 witness: a dict nested in the document with two leaves, flattened to two
\* entries under the joined paths.
C9_Witness ==
    /\ cvpc = "done"
    /\ KeyA \in DOMAIN doc /\ ~doc[KeyA].leaf
    /\ DOMAIN doc[KeyA].d = {KeyA, KeyB}
    /\ doc[KeyA].d[KeyA] = Leaf("v2") /\ doc[KeyA].d[KeyB] = Leaf("v1")
    /\ DOMAIN flat = {KeyAB, <<"a", "/", "a">>}
    /\ flat[KeyAB] = "v1"

(***************************************************************************)
(* Claims about bulk import, checked under SpecImport.                     *)
(***************************************************************************)
\* C10: import_values reports changed=true if at least one flattened key was
\* absent or held another value and was written, and changed=false if every
\* flattened key already held its document value.
C10_ImportChangedIffWritten ==
    (KvDone(1) /\ Importing(1) /\ kvout[1].kind = "exit")
    => kvout[1].changed = (kvcalls[1].put > 0)

\* add_value has read the key for an item of the flattened document.
ImportItemRead ==
    /\ Importing(1)
    /\ kvpc[1] \in {"add_put", "add_retrieve", "done"}
    /\ kvloc[1].item \in DOMAIN kvloc[1].updated

\* C21: bulk import writes each key with its own document value: for every
\* flattened (key, value) pair, the key read and written is the flattened key and
\* the value compared and written is that leaf's value, also when the leaf is
\* empty or zero; the store comes to hold an empty value only for an empty leaf.
C21_ImportWritesOwnValue ==
    ImportItemRead
    => LET item == kvloc[1].item
           leaf == kvloc[1].updated[item]
       IN  /\ kvloc[1].key = item
           /\ kvloc[1].value = leaf
           /\ kvloc[1].put = "ok"
                => /\ item \in DOMAIN store
                   /\ store[item].Value = None => leaf = ""

(***************************************************************************)
(* Claims about ec2_vpc_endpoint, checked under SpecEp.                    *)
(***************************************************************************)
EpDone == eppc = "done"

\* The invocation left the backend with the endpoints and tokens it found.
NothingCreated ==
    Len(endpoints) = Len(ephist.endpoints) /\ DOMAIN tokens = ephist.tokens

\* C5: a create in check mode makes no endpoint and never enters wait_for_status,
\* whatever `wait` is; when the backend answers the dry run with DryRunOperation
\* the invocation reports changed=true with the 'would have created' result, and
\* it has no other normal result.
C5_CheckModeCreate ==
    (EpDone /\ epparams.state = "present" /\ epparams.check_mode)
    => /\ NothingCreated
       /\ eploc.wait = "no" /\ epcalls.describe = 0 /\ epcalls.sleep = 0
       /\ ephist.reply = "DryRunOperation" => epout = EpExit(TRUE, WouldHaveCreated, 0)
       /\ epout.kind = "exit" => (epout.changed /\ epout.result = WouldHaveCreated)

\* C5 witness: a check-mode create with wait=true that ended with the projected result.
C5_Witness ==
    /\ EpDone /\ epparams.state = "present" /\ epparams.check_mode /\ epparams.wait
    /\ epcalls.create = 1
    /\ epout = EpExit(TRUE, WouldHaveCreated, 0)

\* C6: state=absent on an endpoint id that does not exist ends normally with
\* changed=false.
C6_AbsentMissingEndsNormally ==
    (EpDone /\ epparams.state = "absent" /\ ~epparams.check_mode
        /\ epparams.vpc_endpoint_id # 0 /\ ~ephist.existed)
    => (epout.kind = "exit" /\ ~epout.changed)

\* C7: once wait_for_status is over without a failed fetch, it has returned:
\* achieved=true with an observation in the target state if some poll saw the
\* target, otherwise achieved=false with the observation of the last poll.
C7_WaitResult ==
    (eploc.wait \in {"returned", "raised"} /\ ~ephist.fetchFailed)
    => /\ eploc.wait = "returned"
       /\ IF \E i \in DOMAIN ephist.polled : ephist.polled[i] = "available"
          THEN eploc.status_achieved /\ eploc.resource.State = "available"
          ELSE /\ ~eploc.status_achieved
               /\ ephist.polled # <<>> =>
                     eploc.resource.State = ephist.polled[Len(ephist.polled)]

\* The request the client token was first used with differs from this one.
EarlierUseDiffers ==
    /\ epparams.token \in ephist.tokens
    /\ LET ep == endpoints[tokens[epparams.token]]
       IN  ep.VpcId # epparams.vpc_id \/ ep.ServiceName # epparams.service

\* C8: a create (outside check mode) with a client token the backend has seen makes
\* no second endpoint; if the earlier use had a different spec, or the backend
\* answers IdempotentParameterMismatch, it fails with the token-not-unique error;
\* and it ends normally only with an endpoint that has the desired spec.
C8_TokenReuse ==
    (EpDone /\ epparams.state = "present" /\ ~epparams.check_mode
        /\ CreationError(epparams) = None)
    => /\ ephist.reply = "IdempotentParameterMismatch"
            => (epout.kind = "fail" /\ epout.msg = TokenNotUnique /\ NothingCreated)
       /\ epparams.token \in ephist.tokens => NothingCreated
       /\ EarlierUseDiffers => (epout.kind = "fail" /\ epout.msg = TokenNotUnique)
       /\ (epparams.token \in ephist.tokens /\ epout.kind = "exit")
            => /\ epout.id = tokens[epparams.token]
               /\ endpoints[epout.id].VpcId = epparams.vpc_id
               /\ endpoints[epout.id].ServiceName = epparams.service

\* C8 witness: a token reused with another vpc_id after its endpoint was deleted,
\* refused with the token-not-unique error.
C8_Witness ==
    /\ EpDone /\ epparams.state = "present" /\ ~epparams.check_mode
    /\ EarlierUseDiffers
    /\ endpoints[tokens[epparams.token]].State = "deleted"
    /\ ephist.reply = "IdempotentParameterMismatch"
    /\ epout.kind = "fail" /\ epout.msg = TokenNotUnique

(***************************************************************************)
(* Claims about the order of checks and calls in ec2_vpc_endpoint,         *)
(* checked under SpecEp.                                                   *)
(***************************************************************************)
\* A required parameter of a create is missing.
CreateParamMissing ==
    Falsy(epparams.vpc_id) \/ Falsy(epparams.token) \/ Falsy(epparams.service)

\* No endpoint was deleted since the invocation began.
NothingDeleted ==
    \A i \in DOMAIN ephist.endpoints :
        endpoints[i].State = "deleted" => ephist.endpoints[i].State = "deleted"

\* C11: validation precedes mutation.  A state=present invocation with vpc_id,
\* token or service missing, and a state=absent invocation with vpc_endpoint_id
\* missing, end in failure without a create_vpc_endpoint or delete_vpc_endpoints
\* call, and no endpoint is created or deleted.
C11_ValidationPrecedesMutation ==
    /\ (epparams.state = "present" /\ eppc # "idle" /\ CreateParamMissing)
        => /\ EpDone /\ epout.kind = "fail"
           /\ epcalls = NoEpCalls
           /\ NothingCreated /\ NothingDeleted
    /\ (epparams.state = "absent" /\ eppc # "idle" /\ epparams.vpc_endpoint_id = 0)
        => /\ EpDone /\ epout.kind = "fail"
           /\ epcalls = NoEpCalls
           /\ NothingCreated /\ NothingDeleted

\* C11 witness: a create without a token, refused before any call, after an
\* earlier run made an endpoint.
C11_Witness ==
    /\ EpDone /\ epparams.state = "present"
    /\ ~Falsy(epparams.vpc_id) /\ Falsy(epparams.token)
    /\ epout = EpFail("a unique token is a required paramater")
    /\ epcalls = NoEpCalls /\ Len(endpoints) > 0

\* C12: a state=absent invocation never polls, whatever wait and wait_timeout are:
\* it makes no describe call, never enters wait_for_status and never sleeps, and
\* it is over with the step that made the delete call.
C12_AbsentNeverPolls ==
    epparams.state = "absent"
    => /\ epcalls.describe = 0 /\ epcalls.sleep = 0
       /\ eploc.wait = "no"
       /\ eppc \in {"delete", "done"}
       /\ epcalls.delete = 1 => EpDone

\* C12 witness: a real delete with wait=true of an existing endpoint, over after
\* the one delete call.
C12_Witness ==
    /\ EpDone /\ epparams.state = "absent" /\ epparams.wait /\ ~epparams.check_mode
    /\ ephist.existed /\ epcalls.delete = 1 /\ epcalls.describe = 0
    /\ endpoints[epparams.vpc_endpoint_id].State = "deleted"

(***************************************************************************)
(* Claims about repeated consul_kv invocations, checked under Spec.        *)
(***************************************************************************)
\* The read of add_value found the key with the supplied value.
ReadEqualsSupplied(p) ==
    kvloc[p].existing.found /\ kvloc[p].existing.Value = kvloc[p].value

\* p has just run the same state=present invocation twice in a row, and no other
\* process ever ran.
PresentTwice(p) ==
    /\ KvDone(p) /\ kvparams[p].state = "present" /\ ~Importing(p)
    /\ kvhist[p].ran /\ kvhist[p].same
    /\ \A q \in Procs \ {p} : kvpc[q] = "idle"

PutsOf(put) == IF put = "none" THEN 0 ELSE 1

WaitOver == eploc.wait \in {"returned", "raised"}

LastPolled == ephist.polled[Len(ephist.polled)]

\* C14: wait_for_status always returns a defined last observation: when it is over
\* without a failed fetch it has returned, and when no poll produced data (zero
\* polls, as with wait_timeout < 15) it has returned achieved=false with the
\* placeholder observation.
C14_WaitReturnsObservation ==
    (WaitOver /\ ~ephist.fetchFailed)
    => /\ eploc.wait = "returned"
       /\ ephist.polled = <<>>
            => (~eploc.status_achieved /\ eploc.resource = NoEndpoint
                /\ epout = EpFail(ErrorWaiting))

\* C15: wait_for_status terminates within the timeout: it makes at most
\* floor(wait_timeout / 15) fetches, sleeps 15 seconds only after a fetch that
\* did not match, never sleeps longer than wait_timeout in total, and makes no
\* fetch after one that matched.
C15_WaitBounded ==
    eploc.wait # "no"
    => /\ epcalls.describe <= epparams.wait_timeout \div polling_increment_secs
       /\ epcalls.sleep * polling_increment_secs <= epparams.wait_timeout
       /\ epcalls.sleep <= Cardinality({i \in DOMAIN ephist.polled :
                                            ephist.polled[i] # "available"})
       /\ \A i \in DOMAIN ephist.polled :
             ephist.polled[i] = "available" => i = Len(ephist.polled)
       /\ epcalls.describe \in {Len(ephist.polled), Len(ephist.polled) + 1}

\* C15 witness: a wait with room for two polls that is over after its first fetch.
C15_Witness ==
    /\ EpDone /\ WaitOver /\ epparams.wait_timeout = 30
    /\ eploc.max_retries = 2
    /\ epcalls.describe = 1 /\ epcalls.sleep = 0
    /\ ephist.polled = <<"available">>

\* C16: a failed fetch during polling is fatal at once: the invocation is over in
\* failure with the error of the fetch, and the failed fetch is its last describe
\* call, with no sleep after it.
C16_FetchFailureFatal ==
    ephist.fetchFailed
    => /\ EpDone /\ epout.kind = "fail"
       /\ epout.msg \in {"RequestLimitExceeded", "InvalidVpcEndpointId.NotFound"}
       /\ epcalls.describe = Len(ephist.polled) + 1
       /\ epcalls.sleep <= Len(ephist.polled)

\* C16 witness: the first fetch of a wait raised the backend's throttling error.
C16_Witness ==
    /\ ephist.fetchFailed /\ EpDone /\ epparams.wait /\ ~epparams.check_mode
    /\ epout = EpFail("RequestLimitExceeded")
    /\ epcalls.describe = 1 /\ epcalls.sleep = 0 /\ eploc.max_retries = 2

\* The invocation is a create with wait=true outside check mode.
WaitingCreate ==
    /\ epparams.state = "present" /\ epparams.wait /\ ~epparams.check_mode
    /\ ~CreateParamMissing

\* C17: a create with wait=true outside check mode ends normally only if the last
\* polled state of the endpoint is 'available'; when the create call succeeded and
\* the polls did not end on 'available' it ends in failure, with the endpoint made.
C17_SuccessOnlyIfAvailable ==
    (EpDone /\ WaitingCreate)
    => /\ epout.kind = "exit"
            => (ephist.polled # <<>> /\ LastPolled = "available")
       /\ (ephist.reply = None /\ (ephist.polled = <<>> \/ LastPolled # "available"))
            => /\ epout.kind = "fail"
               /\ epcalls.create = 1
               /\ eploc.resource_id \in DOMAIN endpoints

\* C17 witness: the create made the endpoint, the poll saw it pending, and the
\* invocation failed.
C17_Witness ==
    /\ EpDone /\ WaitingCreate /\ ephist.reply = None
    /\ Len(endpoints) = Len(ephist.endpoints) + 1
    /\ ephist.polled = <<"pending">>
    /\ epout.kind = "fail"

\* C18: a delete reports the same changed in check mode as a real run on the same
\* remote state does, and a real run reports changed=true exactly when it deleted
\* an endpoint that existed.
C18_DeleteChangedAgrees ==
    (EpDone /\ epparams.state = "absent" /\ epout.kind = "exit")
    => (epout.changed <=> ephist.existed)

(***************************************************************************)
(* Claims about consul_kv state=acquire and state=release, checked under   *)
(* Spec.                                                                   *)
(***************************************************************************)
LockRun(p) == kvpc[p] # "idle" /\ kvparams[p].state \in {"acquire", "release"}

\* C19: a state=acquire or state=release invocation without a session ends in
\* failure and issues no kv.put, nor any other call that changes the store.
C19_LockWithoutSessionFails ==
    \A p \in Procs :
        (LockRun(p) /\ Falsy(kvparams[p].session))
        => /\ KvDone(p) /\ kvout[p].kind = "fail"
           /\ kvcalls[p].put = 0 /\ kvcalls[p].delete = 0
           /\ kvloc[p].put = "none"

\* C19 witness: an acquire without a session has failed, on a store that holds its
\* key, without a call.
C19_Witness ==
    \E p \in Procs :
        /\ KvDone(p) /\ kvparams[p].state = "acquire" /\ Falsy(kvparams[p].session)
        /\ kvparams[p].key \in DOMAIN store
        /\ kvout[p].kind = "fail" /\ kvcalls[p] = NoCalls

\* C20: a state=acquire or state=release invocation never issues kv.delete:
\* control never reaches remove_value.
C20_LockNeverDeletes ==
    \A p \in Procs :
        LockRun(p)
        => /\ kvcalls[p].delete = 0
           /\ kvpc[p] \notin {"rm_get", "rm_delete"}

\* C20 witness: a release with a session is over, its key still in the store as
\* the run found it.
C20_Witness ==
    \E p \in Procs :
        /\ KvDone(p) /\ kvparams[p].state = "release" /\ ~Falsy(kvparams[p].session)
        /\ kvparams[p].key \in DOMAIN store
        /\ kvcalls[p].delete = 0
        /\ \A q \in Procs \ {p} : kvpc[q] = "idle"
====
